---- MODULE Spec2Model ----
(***************************************************************************)
(* Model of src/app/config/settings.py: the typed environment-variable     *)
(* loader (EnvironmentVariable, ModeConditionalDefault), the Settings      *)
(* aggregate, and the process-wide single-slot cache around it             *)
(* (get_settings / reload_settings / is_settings_cached /                  *)
(* get_settings_cache_info).                                               *)
(*                                                                         *)
(* Strings are sequences of tokens.  A token is one character where the    *)
(* code looks at characters (the digits of a port) and a whole word where  *)
(* it only compares or concatenates (a key, a mode, a log phrase).  The    *)
(* empty string is <<>>.  Optional[T] is None == <<>> or Some(v) == <<v>>, *)
(* so an absent variable (None) differs from an empty one (Some(<<>>)).    *)
(***************************************************************************)
EXTENDS Integers, Sequences, FiniteSets, TLC

VARIABLES
    environ,    \* os.environ: variable name -> Optional raw string
    cache,      \* lru_cache of get_settings: sequence of cached results (LRU order)
    hits,       \* lru_cache hit counter
    misses,     \* lru_cache miss counter
    made,       \* number of Settings objects ever allocated (object identity)
    ret,        \* outcome of the operation executed by the last step
    builtEnv,   \* history: os.environ as read by the construction held in the cache
    served,     \* history: ids returned by get_settings since the last reload
    retired,    \* history: ids returned by get_settings before the last reload
    calls,      \* history: get_settings calls since the last reload
    fails,      \* history: get_settings calls that raised since the last reload
    desc,       \* the EnvironmentVariable under resolution (SpecVar)
    cur,        \* the current_mode argument of that resolution (SpecVar)
    res,        \* outcome of that resolution (SpecVar)
    thr,        \* per thread: its position inside a get_settings() call (SpecConc)
    stale,      \* history: ids built from an environment read before a reload (SpecConc)
    rootLogger  \* configuration of the root logger left by setup_logging (SpecLogging)

vars == <<environ, cache, hits, misses, made, ret, builtEnv, served, retired,
          calls, fails, desc, cur, res, thr, stale, rootLogger>>

cacheVars == <<cache, hits, misses, made, ret, builtEnv, served, retired, calls, fails>>

varVars == <<desc, cur, res>>

concVars == <<thr, stale>>

logVars == <<rootLogger>>

-----------------------------------------------------------------------------
(* Bounds of the model *)

\* longest raw PORT string enumerated over PortChars
MaxLen == 2

\* get_settings cache hits explored between two reloads
MaxHits == 2

\* Settings() constructions (cache misses) explored in one behaviour
MaxMade == 3

-----------------------------------------------------------------------------
(* Optional values and strings *)

None == <<>>

Some(v) == <<v>>

Empty == <<>>

\* s occurs in t as a contiguous run of tokens
Contains(t, s) ==
    \E i \in 0..(Len(t) - Len(s)) : SubSeq(t, i + 1, i + Len(s)) = s

-----------------------------------------------------------------------------
(* class Key(StrEnum), class Mode(StrEnum): auto() gives the lower-cased   *)
(* member name, and str() of a member is that value.                       *)

Key == {"mode", "host", "port", "gcp_project_id", "gcp_resource_type"}

DEVELOPMENT == <<"development">>

PRODUCTION == <<"production">>

Mode == {DEVELOPMENT, PRODUCTION}

-----------------------------------------------------------------------------
(* Python built-ins used by the validators and converters *)

DecimalChars == <<"0", "1", "2", "3", "4", "5", "6", "7", "8", "9">>

IsDecimalChar(c) == \E i \in 1..Len(DecimalChars) : DecimalChars[i] = c

DigitValue(c) == (CHOOSE i \in 1..Len(DecimalChars) : DecimalChars[i] = c) - 1

\* "sup2" is U+00B2 SUPERSCRIPT TWO: Numeric_Type=Digit but not Decimal, so
\* str.isdigit() accepts it and int() does not.
IsDigitChar(c) == IsDecimalChar(c) \/ c = "sup2"

\* str.isdigit(): at least one character and all of them digits
StrIsDigit(s) == Len(s) > 0 /\ \A i \in 1..Len(s) : IsDigitChar(s[i])

RECURSIVE DecimalValue(_)
DecimalValue(s) ==
    IF Len(s) = 0 THEN 0
    ELSE 10 * DecimalValue(SubSeq(s, 1, Len(s) - 1)) + DigitValue(s[Len(s)])

\* the strings int() parses, over the characters of this model (no sign,
\* whitespace or underscore characters are enumerated)
IntParses(s) == Len(s) > 0 /\ \A i \in 1..Len(s) : IsDecimalChar(s[i])

-----------------------------------------------------------------------------
(* Outcomes: a returned value or a raised exception, with the messages     *)
(* passed to logger.debug on the way.                                      *)

Ok(v, log) == [kind |-> "ok", value |-> v, log |-> log]

Raise(exc, msg, log) == [kind |-> exc, msg |-> msg, log |-> log]

\* int(x)
PyInt(s) ==
    IF IntParses(s) THEN Ok(DecimalValue(s), <<>>)
    ELSE Raise("ValueError",
               <<"invalid literal for int() with base 10: '">> \o s \o <<"'">>, <<>>)

\* Mode(x): the member whose value is x
PyMode(s) ==
    IF s \in Mode THEN Ok(s, <<>>)
    ELSE Raise("ValueError", <<"'">> \o s \o <<"' is not a valid Mode">>, <<>>)

-----------------------------------------------------------------------------
(* class ModeConditionalDefault *)

\* __init__ allowing every mode whatever it is given
ModeConditionalDefaultInit_AnyMode(value, arg) ==
    [value |-> value, allowed_modes |-> Mode]

\* __init__: allowed_modes is given as one Mode (isMode) or as a set of them
ModeConditionalDefaultInit(value, arg) ==
    [value |-> value,
     allowed_modes |-> IF arg.isMode THEN {arg.modes} ELSE arg.modes]

OneMode(m) == [isMode |-> TRUE, modes |-> m]

ModeSet(S) == [isMode |-> FALSE, modes |-> S]

\* should_apply ignoring the mode
should_apply_Always(self, current_mode) == TRUE

should_apply(self, current_mode) == current_mode \in self.allowed_modes

-----------------------------------------------------------------------------
(* class EnvironmentVariable *)

MinPort == 1

MaxPort == 65535

\* validator=lambda x: x.isdigit() and 1 <= int(x) <= 65535; "none" is no validator
ApplyValidator(validator, raw_value) ==
    IF validator = "port"
    THEN IF ~StrIsDigit(raw_value) THEN Ok(FALSE, <<>>)
         ELSE LET n == PyInt(raw_value)
              IN  IF n.kind # "ok" THEN n
                  ELSE Ok(MinPort <= n.value /\ n.value <= MaxPort, <<>>)
    ELSE Ok(TRUE, <<>>)

\* converter: the default lambda x: cast(T, x), int, or Mode
ApplyConverter(converter, raw_value) ==
    CASE converter = "int" -> PyInt(raw_value)
      [] converter = "Mode" -> PyMode(raw_value)
      [] OTHER -> Ok(raw_value, <<>>)

\* __init__
EnvironmentVariable(key, sensitive, default, mcd, validator, converter) ==
    [key |-> key, sensitive |-> sensitive, default |-> default,
     mode_conditional_default |-> mcd,
     validator |-> validator, converter |-> converter]

\* bool(current_mode): None and the empty string are falsy
Truthy(current_mode) == current_mode # None /\ current_mode[1] # Empty

\* MissingError without the mode context
MissingError_NoMode(self, current_mode, log) ==
    Raise("EnvironmentError",
          <<self.key, " environment variable is required">>
              \o <<". ", "No default value is available for this mode.">>,
          log)

\* the EnvironmentError raised when no default applies
MissingError(self, current_mode, log) ==
    LET mode_context ==
            IF Truthy(current_mode)
            THEN <<" (current_mode: ">> \o current_mode[1] \o <<")">>
            ELSE Empty
    IN  Raise("EnvironmentError",
              <<self.key, " environment variable is required">>
                  \o mode_context
                  \o <<". ", "No default value is available for this mode.">>,
              log)

\* _handle_raw_value_none consulting the mode-conditional default first
_handle_raw_value_none_ModeFirst(self, current_mode, log) ==
    IF /\ self.mode_conditional_default # None
       /\ current_mode # None
       /\ current_mode[1] \in self.mode_conditional_default[1].allowed_modes
    THEN Ok(self.mode_conditional_default[1].value, log)
    ELSE IF self.default # None
    THEN Ok(self.default[1], log)
    ELSE Raise("EnvironmentError", <<self.key, " environment variable is required">>, log)

_handle_raw_value_none(self, current_mode, log) ==
    IF self.default # None
    THEN Ok(self.default[1], log)
    ELSE IF /\ self.mode_conditional_default # None
            /\ current_mode # None
            /\ should_apply(self.mode_conditional_default[1], current_mode[1])
    THEN Ok(self.mode_conditional_default[1].value, log)
    ELSE MissingError(self, current_mode, log)

\* the validation error carrying the raw value of sensitive variables too
ValidateAndConvert_RawAlways(self, raw_value) ==
    LET valid == ApplyValidator(self.validator, raw_value)
        conv == ApplyConverter(self.converter, raw_value)
    IN  IF valid.kind # "ok" THEN valid
        ELSE IF ~valid.value
        THEN Raise("EnvironmentError",
                   <<"validation failed for '", self.key, "'.", " raw_value: ">>
                       \o raw_value, <<>>)
        ELSE IF conv.kind = "ok" THEN Ok(conv.value, <<>>)
        ELSE Raise(conv.kind, conv.msg, <<>>)

\* get_validated_value for a raw value that is present and not empty:
\* validator, debug message, converter
ValidateAndConvert(self, raw_value) ==
    LET valid == ApplyValidator(self.validator, raw_value)
        log == IF ~self.sensitive
               THEN <<<<"Loaded '", self.key, "' from environment: ">> \o raw_value>>
               ELSE <<<<"Loaded sensitive variable '", self.key, "' from environment">>>>
        conv == ApplyConverter(self.converter, raw_value)
    IN  IF valid.kind # "ok" THEN valid
        ELSE IF ~valid.value
        THEN Raise("EnvironmentError",
                   <<"validation failed for '", self.key, "'.">>
                       \o (IF ~self.sensitive THEN <<" raw_value: ">> \o raw_value
                           ELSE Empty),
                   <<>>)
        ELSE IF conv.kind = "ok" THEN Ok(conv.value, log)
        ELSE Raise(conv.kind, conv.msg, log)

\* get_validated_value testing "not raw_value": the empty string falls to the defaults
get_validated_value_EmptyAbsent(self, current_mode, env) ==
    IF env[self.key] = None \/ env[self.key] = Some(Empty)
    THEN _handle_raw_value_none(self, current_mode, <<>>)
    ELSE ValidateAndConvert(self, env[self.key][1])

get_validated_value(self, current_mode, env) ==
    LET raw_value == env[self.key]
    IN  IF raw_value = None
        THEN _handle_raw_value_none(self, current_mode,
                 <<<<"Environment variable '", self.key,
                     "' not found, checking defaults">>>>)
        ELSE IF raw_value[1] = Empty
        THEN Raise("EnvironmentError",
                   <<"Environment variable '", self.key, "' is empty">>, <<>>)
        ELSE ValidateAndConvert(self, raw_value[1])

-----------------------------------------------------------------------------
(* class Settings *)

DevHost == <<"0.0.0.0">>

DevPort == 8000

DevResourceType == <<"cloud_run_revision">>

ModeVar == EnvironmentVariable("mode", FALSE, None, None, "none", "Mode")

\* the host field declared without its development default
HostVar_NoDefault == EnvironmentVariable("host", FALSE, None, None, "none", "identity")

HostVar ==
    EnvironmentVariable("host", FALSE, None,
        Some(ModeConditionalDefaultInit(DevHost, OneMode(DEVELOPMENT))),
        "none", "identity")

PortVar ==
    EnvironmentVariable("port", FALSE, None,
        Some(ModeConditionalDefaultInit(DevPort, OneMode(DEVELOPMENT))),
        "port", "int")

ProjectVar == EnvironmentVariable("gcp_project_id", FALSE, None, None, "none", "identity")

ResourceVar ==
    EnvironmentVariable("gcp_resource_type", FALSE, None,
        Some(ModeConditionalDefaultInit(DevResourceType, OneMode(DEVELOPMENT))),
        "none", "identity")

\* an outcome with the messages logged before it put in front of its own
After(log, r) ==
    IF r.kind = "ok" THEN Ok(r.value, log \o r.log)
    ELSE Raise(r.kind, r.msg, log \o r.log)

\* __init__ resolving port before host
SettingsInit_PortFirst(env) ==
    LET m == get_validated_value(ModeVar, None, env)
        mode == Some(m.value)
        h == get_validated_value(HostVar, mode, env)
        p == get_validated_value(PortVar, mode, env)
        g == get_validated_value(ProjectVar, None, env)
        t == get_validated_value(ResourceVar, mode, env)
    IN  IF m.kind # "ok" THEN m
        ELSE IF p.kind # "ok" THEN After(m.log, p)
        ELSE IF h.kind # "ok" THEN After(m.log \o p.log, h)
        ELSE IF g.kind # "ok" THEN After(m.log \o h.log \o p.log, g)
        ELSE IF t.kind # "ok" THEN After(m.log \o h.log \o p.log \o g.log, t)
        ELSE Ok([mode |-> m.value, host |-> h.value, port |-> p.value,
                 gcp_project_id |-> g.value, gcp_resource_type |-> t.value],
                m.log \o h.log \o p.log \o g.log \o t.log)

\* __init__ resolving gcp_resource_type without the mode
SettingsInit_ResourceNoMode(env) ==
    LET m == get_validated_value(ModeVar, None, env)
        mode == Some(m.value)
        h == get_validated_value(HostVar, mode, env)
        p == get_validated_value(PortVar, mode, env)
        g == get_validated_value(ProjectVar, None, env)
        t == get_validated_value(ResourceVar, None, env)
    IN  IF m.kind # "ok" THEN m
        ELSE IF h.kind # "ok" THEN After(m.log, h)
        ELSE IF p.kind # "ok" THEN After(m.log \o h.log, p)
        ELSE IF g.kind # "ok" THEN After(m.log \o h.log \o p.log, g)
        ELSE IF t.kind # "ok" THEN After(m.log \o h.log \o p.log \o g.log, t)
        ELSE Ok([mode |-> m.value, host |-> h.value, port |-> p.value,
                 gcp_project_id |-> g.value, gcp_resource_type |-> t.value],
                m.log \o h.log \o p.log \o g.log \o t.log)

\* Settings.__init__: the five fields in order, the first failure propagating
\* (a later field is looked at only when every earlier one was resolved)
SettingsInit(env) ==
    LET m == get_validated_value(ModeVar, None, env)
        mode == Some(m.value)
        h == get_validated_value(HostVar, mode, env)
        p == get_validated_value(PortVar, mode, env)
        g == get_validated_value(ProjectVar, None, env)
        t == get_validated_value(ResourceVar, mode, env)
    IN  IF m.kind # "ok" THEN m
        ELSE IF h.kind # "ok" THEN After(m.log, h)
        ELSE IF p.kind # "ok" THEN After(m.log \o h.log, p)
        ELSE IF g.kind # "ok" THEN After(m.log \o h.log \o p.log, g)
        ELSE IF t.kind # "ok" THEN After(m.log \o h.log \o p.log \o g.log, t)
        ELSE Ok([mode |-> m.value, host |-> h.value, port |-> p.value,
                 gcp_project_id |-> g.value, gcp_resource_type |-> t.value],
                m.log \o h.log \o p.log \o g.log \o t.log)

is_development(self) == self.mode = DEVELOPMENT

is_production(self) == self.mode = PRODUCTION

\* the field values of a Settings instance, without its identity
Fields(self) ==
    [mode |-> self.mode, host |-> self.host, port |-> self.port,
     gcp_project_id |-> self.gcp_project_id,
     gcp_resource_type |-> self.gcp_resource_type]

\* Settings(): a new object (identity id) initialised from the environment
SettingsNew(id, env) ==
    LET r == SettingsInit(env)
    IN  IF r.kind # "ok" THEN r
        ELSE Ok([id |-> id] @@ r.value, r.log)

-----------------------------------------------------------------------------
(* @lru_cache(maxsize=1) def get_settings() *)

maxsize == 1

\* the cache key of a call without arguments
ArgsKey == <<>>

\* cache_get that never finds the entry
CacheGet_Never(c, key) == None

\* cache_get(key): the entry stored for key, if any
CacheGet(c, key) ==
    IF \E i \in 1..Len(c) : c[i].key = key
    THEN Some(c[CHOOSE i \in 1..Len(c) : c[i].key = key])
    ELSE None

\* storing a new result: the oldest entry makes room when the cache is full
CachePut(c, key, result) ==
    IF Len(c) >= maxsize
    THEN Tail(c) \o <<[key |-> key, result |-> result]>>
    ELSE c \o <<[key |-> key, result |-> result]>>

\* get_settings.cache_info()
get_settings_cache_info ==
    [hits |-> hits, misses |-> misses, maxsize |-> maxsize, currsize |-> Len(cache)]

\* is_settings_cached reading the hit counter
is_settings_cached_ByHits == get_settings_cache_info.hits # 0

is_settings_cached == get_settings_cache_info.currsize # 0

\* cache_clear resetting the counters and keeping the entries
CacheClear_CountersOnly(st) == [cache |-> st.cache, hits |-> 0, misses |-> 0]

\* cache_clear dropping the entries and keeping the counters
CacheClear_EntriesOnly(st) == [cache |-> <<>>, hits |-> st.hits, misses |-> st.misses]

\* the state cache_clear() leaves: no entries, counters at zero
CacheClear(st) == [cache |-> <<>>, hits |-> 0, misses |-> 0]

CacheState == [cache |-> cache, hits |-> hits, misses |-> misses]

-----------------------------------------------------------------------------
(* The environments explored *)

RECURSIVE StringsUpTo(_, _)
StringsUpTo(chars, n) ==
    IF n = 0 THEN {<<>>}
    ELSE LET shorter == StringsUpTo(chars, n - 1)
         IN  shorter \cup {Append(s, c) : s \in shorter, c \in chars}

PortChars == {"0", "1", "7", "x", "sup2"}

\* raw PORT strings at the edges of the valid range
EdgePorts ==
    {<<"8", "0", "8", "0">>, <<"6", "5", "5", "3", "5">>, <<"6", "5", "5", "3", "6">>,
     <<"9", "9", "9", "9", "9">>, <<"not-a-number">>}

PortStrings == StringsUpTo(PortChars, MaxLen) \cup EdgePorts

\* the raw values a variable takes in the cache's specification
RawValues(key) ==
    CASE key = "mode" -> {DEVELOPMENT, PRODUCTION, <<"staging">>}
      [] key = "host" -> {<<"localhost">>, <<"new-host">>}
      [] key = "port" -> {<<"0">>, <<"8", "0", "8", "0">>}
      [] key = "gcp_project_id" -> {<<"test-project">>}
      [] key = "gcp_resource_type" -> {<<"gce_instance">>}

NoEnviron == [k \in Key |-> None]

-----------------------------------------------------------------------------
(* The cache: get_settings, reload_settings, and the environment changing  *)

Called(op, r) == [op |-> op] @@ r

InitVar ==
    /\ desc = ModeVar
    /\ cur = None
    /\ res = [kind |-> "pending"]

InitCache ==
    /\ cache = <<>>
    /\ hits = 0
    /\ misses = 0
    /\ made = 0
    /\ ret = [op |-> "import"]
    /\ builtEnv = None
    /\ served = {}
    /\ retired = {}
    /\ calls = 0
    /\ fails = 0

\* the threads calling get_settings()
Threads == {"a", "b"}

\* a thread outside get_settings()
Idle == [pc |-> "idle"]

InitConc ==
    /\ thr = [t \in Threads |-> Idle]
    /\ stale = {}

\* the root logger before setup_logging()
InitLogging == rootLogger = None

Init ==
    /\ environ = NoEnviron
    /\ InitCache
    /\ InitVar
    /\ InitConc
    /\ InitLogging

\* a wrapper that keeps an entry for a call that raised
GetSettings_MemoFail ==
    LET link == CacheGet(cache, ArgsKey)
    IN  IF link # None
        THEN /\ hits < MaxHits
             /\ hits' = hits + 1
             /\ ret' = Called("get_settings", Ok(link[1].result, <<>>))
             /\ served' = served \cup {link[1].result.id}
             /\ calls' = calls + 1
             /\ UNCHANGED <<environ, cache, misses, made, builtEnv, retired, fails>>
        ELSE /\ made < MaxMade
             /\ misses' = misses + 1
             /\ made' = made + 1
             /\ calls' = calls + 1
             /\ LET result == SettingsNew(made + 1, environ)
                IN  /\ ret' = Called("get_settings", result)
                    /\ IF result.kind = "ok"
                       THEN /\ cache' = CachePut(cache, ArgsKey, result.value)
                            /\ builtEnv' = Some(environ)
                            /\ served' = served \cup {result.value.id}
                            /\ fails' = fails
                       ELSE /\ fails' = fails + 1
                            /\ cache' = CachePut(cache, ArgsKey, [id |-> made + 1])
                            /\ UNCHANGED <<builtEnv, served>>
             /\ UNCHANGED <<environ, hits, retired>>

\* the wrapper of lru_cache around Settings()
GetSettings ==
    LET link == CacheGet(cache, ArgsKey)
    IN  IF link # None
        THEN /\ hits < MaxHits
             /\ hits' = hits + 1
             /\ ret' = Called("get_settings", Ok(link[1].result, <<>>))
             /\ served' = served \cup {link[1].result.id}
             /\ calls' = calls + 1
             /\ UNCHANGED <<environ, cache, misses, made, builtEnv, retired, fails>>
        ELSE /\ made < MaxMade
             /\ misses' = misses + 1
             /\ made' = made + 1
             /\ calls' = calls + 1
             /\ LET result == SettingsNew(made + 1, environ)
                IN  /\ ret' = Called("get_settings", result)
                    /\ IF result.kind = "ok"
                       THEN /\ cache' = CachePut(cache, ArgsKey, result.value)
                            /\ builtEnv' = Some(environ)
                            /\ served' = served \cup {result.value.id}
                            /\ fails' = fails
                       ELSE /\ fails' = fails + 1
                            /\ UNCHANGED <<cache, builtEnv, served>>
             /\ UNCHANGED <<environ, hits, retired>>

ReloadSettings ==
    LET cleared == CacheClear(CacheState)
    IN  /\ cache' = cleared.cache
        /\ hits' = cleared.hits
        /\ misses' = cleared.misses
        /\ ret' = Called("reload_settings",
                         Ok(None, <<<<"Reloading settings = clearing cache">>>>))
        /\ builtEnv' = None
        /\ retired' = retired \cup served
        /\ served' = {}
        /\ calls' = 0
        /\ fails' = 0
        /\ UNCHANGED <<environ, made>>

\* os.environ[key] = value
SetEnv ==
    \E key \in Key : \E value \in RawValues(key) :
        /\ environ[key] # Some(value)
        /\ environ' = [environ EXCEPT ![key] = Some(value)]
        /\ ret' = [op |-> "environ"]
        /\ UNCHANGED <<cache, hits, misses, made, builtEnv, served, retired, calls, fails>>

\* del os.environ[key]
DelEnv ==
    \E key \in Key :
        /\ environ[key] # None
        /\ environ' = [environ EXCEPT ![key] = None]
        /\ ret' = [op |-> "environ"]
        /\ UNCHANGED <<cache, hits, misses, made, builtEnv, served, retired, calls, fails>>

Next ==
    \/ GetSettings /\ UNCHANGED <<varVars, concVars, logVars>>
    \/ ReloadSettings /\ UNCHANGED <<varVars, concVars, logVars>>
    \/ SetEnv /\ UNCHANGED <<varVars, concVars, logVars>>
    \/ DelEnv /\ UNCHANGED <<varVars, concVars, logVars>>

Spec == Init /\ [][Next]_vars

-----------------------------------------------------------------------------
(* One EnvironmentVariable resolved on its own: every configuration of     *)
(* defaults, sensitivity, validator and converter, every current_mode.     *)

\* validator and converter as Settings and its tests combine them
Shapes ==
    {[validator |-> "none", converter |-> "identity"],
     [validator |-> "port", converter |-> "int"],
     [validator |-> "none", converter |-> "int"],
     [validator |-> "none", converter |-> "Mode"]}

\* a plain default and a mode-conditional default value of the converter's type
PlainDefault(converter) ==
    CASE converter = "int" -> 5000
      [] converter = "Mode" -> PRODUCTION
      [] OTHER -> <<"regular_default">>

ModeDefault(converter) ==
    CASE converter = "int" -> DevPort
      [] converter = "Mode" -> DEVELOPMENT
      [] OTHER -> <<"dev_host">>

\* the arguments __init__ accepts for allowed_modes: a Mode, or any set of them
ModeArgs == {OneMode(DEVELOPMENT), OneMode(PRODUCTION), ModeSet(Mode), ModeSet({})}

Descriptors ==
    {EnvironmentVariable(k, s,
         IF d THEN Some(PlainDefault(sh.converter)) ELSE None,
         IF m = None THEN None
         ELSE Some(ModeConditionalDefaultInit(ModeDefault(sh.converter), m[1])),
         sh.validator, sh.converter) :
        k \in Key, s \in BOOLEAN, d \in BOOLEAN,
        m \in {None} \cup {Some(a) : a \in ModeArgs}, sh \in Shapes}

\* the raw values tried on a variable
RawFor(self) ==
    IF self.converter = "int" THEN PortStrings
    ELSE {Empty, <<"localhost">>, DEVELOPMENT, <<"staging">>}

OptionalMode == {None} \cup {Some(m) : m \in Mode}

InitOne ==
    /\ desc \in Descriptors
    /\ cur \in OptionalMode
    /\ \E raw \in {None} \cup {Some(v) : v \in RawFor(desc)} :
           environ = [NoEnviron EXCEPT ![desc.key] = raw]
    /\ res = [kind |-> "pending"]
    /\ InitCache
    /\ InitConc
    /\ InitLogging

\* desc.get_validated_value(cur)
Resolve ==
    /\ res' = get_validated_value(desc, cur, environ)
    /\ UNCHANGED <<environ, desc, cur>>

\* the variable set to another value, or deleted, before the next resolution
Putenv ==
    \E raw \in {None} \cup {Some(v) : v \in RawFor(desc)} :
        /\ environ[desc.key] # raw
        /\ environ' = [environ EXCEPT ![desc.key] = raw]
        /\ res' = [kind |-> "pending"]
        /\ UNCHANGED <<desc, cur>>

NextOne ==
    \/ Resolve /\ UNCHANGED <<cacheVars, concVars, logVars>>
    \/ Putenv /\ UNCHANGED <<cacheVars, concVars, logVars>>

SpecVar == InitOne /\ [][NextOne]_vars

-----------------------------------------------------------------------------
(* Properties of the cache (Spec) *)

\* the environment from which Settings() succeeds
ValidEnv(env) == SettingsInit(env).kind = "ok"

GetStep == ret'.op = "get_settings"

\* C1: from the empty cache (no entry, both counters zero) and a valid
\* environment, get_settings() is a miss leaving size 1, misses 1, hits 0;
\* every get_settings() on a populated slot adds exactly one hit and leaves
\* misses and size alone; so after the calls since the last reload, none of
\* which raised, size = 1, misses = 1 and hits = calls - 1.
C1_FirstMissThenHits ==
    [][GetStep =>
        /\ (Len(cache) = 0 /\ hits = 0 /\ misses = 0 /\ ValidEnv(environ))
              => (ret'.kind = "ok" /\ Len(cache') = 1 /\ misses' = 1 /\ hits' = 0)
        /\ (Len(cache) = 1)
              => (hits' = hits + 1 /\ misses' = misses /\ Len(cache') = 1)
        /\ (fails' = 0)
              => (Len(cache') = 1 /\ misses' = 1 /\ hits' = calls' - 1)]_vars

\* three calls from the empty cache: size 1, misses 1, hits 2
C1_Witness ==
    /\ ret.op = "get_settings"
    /\ calls = 3 /\ fails = 0
    /\ Len(cache) = 1 /\ misses = 1 /\ hits = 2

\* C2: a successful get_settings() returns the field values Settings() gives
\* on the environment as it was at the most recent construction: a change of
\* the environment made since is not visible, and on the empty slot (after a
\* reload, or at the start) the call constructs from the environment of now.
C2_ValuesOfLastConstruction ==
    [][(GetStep /\ ret'.kind = "ok") =>
        /\ builtEnv' # None
        /\ ValidEnv(builtEnv'[1])
        /\ Fields(ret'.value) = SettingsInit(builtEnv'[1]).value
        /\ (Len(cache) = 1) => (builtEnv' = builtEnv)
        /\ (Len(cache) = 0) => (builtEnv' = Some(environ))]_vars

\* a cached host is served although the environment now names another host
C2_Witness ==
    /\ ret.op = "get_settings" /\ ret.kind = "ok"
    /\ builtEnv # None
    /\ builtEnv[1]["host"] = None
    /\ environ["host"] = Some(<<"new-host">>)
    /\ ret.value.host = DevHost
    /\ ValidEnv(environ)

\* C3: the successful get_settings() calls since the last reload all returned
\* one and the same instance, and none of them returned an instance that a
\* call before that reload had returned.
C3_SameUntilReload ==
    /\ Cardinality(served) <= 1
    /\ served \cap retired = {}
    /\ (ret.op = "get_settings" /\ ret.kind = "ok") => served = {ret.value.id}

\* a second call returned the instance of the first, after a reload had retired another
C3_Witness ==
    /\ ret.op = "get_settings" /\ ret.kind = "ok"
    /\ hits >= 1
    /\ retired # {}
    /\ served = {ret.value.id}

\* C4: reload_settings() in any cache state leaves no entry and both counters
\* at zero, allocates no Settings, leaves the environment alone and returns
\* normally; cleared again, the cache stays as it is.
C4_ReloadEmpties ==
    [][(ret'.op = "reload_settings") =>
        /\ Len(cache') = 0 /\ hits' = 0 /\ misses' = 0
        /\ get_settings_cache_info'.currsize = 0
        /\ made' = made
        /\ environ' = environ
        /\ ret'.kind = "ok" /\ ret'.value = None
        /\ CacheClear(CacheState') = CacheState']_vars

\* a reload has cleared a slot that was populated and had been hit
C4_Witness ==
    /\ ret.op = "reload_settings"
    /\ retired # {}
    /\ made >= 1
    /\ Len(cache) = 0 /\ hits = 0 /\ misses = 0

\* C5: the size reported is 0 or 1 and the maximum size is 1;
\* is_settings_cached() is true exactly when an instance is held (size 1);
\* before any get_settings() it is false with size 0.
C5_SizeAndCached ==
    /\ get_settings_cache_info.currsize \in {0, 1}
    /\ get_settings_cache_info.maxsize = 1
    /\ is_settings_cached <=> (CacheGet(cache, ArgsKey) # None)
    /\ is_settings_cached <=> (get_settings_cache_info.currsize = 1)
    /\ (made = 0) => (~is_settings_cached /\ get_settings_cache_info.currsize = 0)

\* populated by the call that followed a raising one, and not hit yet
C5_Witness ==
    /\ is_settings_cached
    /\ fails >= 1
    /\ hits = 0
    /\ get_settings_cache_info.currsize = 1

\* C18: a get_settings() whose construction raises leaves the slot empty
\* (size 0, is_settings_cached() false) and the hit counter unchanged; every
\* get_settings() on an empty slot constructs anew from the environment as
\* it is now, and succeeds, filling the slot, exactly when that environment
\* is valid, whether or not earlier calls raised and with no reload needed.
C18_FailureNotMemoized ==
    [][GetStep =>
        /\ (ret'.kind # "ok") =>
               /\ Len(cache') = 0
               /\ get_settings_cache_info'.currsize = 0
               /\ ~is_settings_cached'
               /\ hits' = hits
               /\ "value" \notin DOMAIN ret'
        /\ (Len(cache) = 0) =>
               /\ made' = made + 1
               /\ (ret'.kind = "ok") <=> ValidEnv(environ)
               /\ ValidEnv(environ) =>
                      /\ Fields(ret'.value) = SettingsInit(environ).value
                      /\ ret'.value.id = made + 1
                      /\ Len(cache') = 1
                      /\ cache'[1].result = ret'.value
      ]_vars

\* get_settings() succeeded after two raising calls and no reload in between
C18_Witness ==
    /\ ret.op = "get_settings"
    /\ ret.kind = "ok"
    /\ fails = 2
    /\ misses = 3
    /\ is_settings_cached
    /\ cache[1].result = ret.value

-----------------------------------------------------------------------------
(* Properties of one resolution (SpecVar) *)

Resolved == res.kind # "pending"

\* os.getenv(desc.key)
RawOfDesc == environ[desc.key]

\* the mode-conditional default of desc is configured and allows cur
ModeDefaultApplies ==
    /\ desc.mode_conditional_default # None
    /\ cur # None
    /\ cur[1] \in desc.mode_conditional_default[1].allowed_modes

\* C6: a variable present with the empty string as its value makes
\* get_validated_value raise the "is empty" EnvironmentError, whatever
\* defaults are configured and whatever the mode: no default is returned.
C6_EmptyStringRaises ==
    (Resolved /\ RawOfDesc = Some(Empty)) =>
        /\ res.kind = "EnvironmentError"
        /\ res.msg = <<"Environment variable '", desc.key, "' is empty">>

\* the empty string raised although a plain and a matching mode default exist
C6_Witness ==
    /\ Resolved
    /\ RawOfDesc = Some(Empty)
    /\ desc.default # None
    /\ ModeDefaultApplies
    /\ res.kind = "EnvironmentError"

\* C7: when the variable is absent and a plain default is configured, the
\* plain default is returned, for every current mode and also when a
\* mode-conditional default allowing that mode is configured.
C7_PlainDefaultWins ==
    (Resolved /\ RawOfDesc = None /\ desc.default # None) =>
        (res.kind = "ok" /\ res.value = desc.default[1])

\* the plain default returned over a matching, different mode default
C7_Witness ==
    /\ Resolved
    /\ RawOfDesc = None
    /\ desc.default # None
    /\ ModeDefaultApplies
    /\ desc.mode_conditional_default[1].value # desc.default[1]
    /\ res.kind = "ok"
    /\ res.value = desc.default[1]

\* C8: when the variable is absent and no plain default is configured, the
\* mode-conditional default's value is returned if and only if one is
\* configured, a current mode was supplied and it is among the allowed
\* modes; in every other such case the resolution raises.
C8_ModeDefaultIff ==
    (Resolved /\ RawOfDesc = None /\ desc.default = None) =>
        IF ModeDefaultApplies
        THEN res.kind = "ok" /\ res.value = desc.mode_conditional_default[1].value
        ELSE res.kind = "EnvironmentError"

\* a production-only default returned in production
C8_Witness ==
    /\ Resolved
    /\ RawOfDesc = None
    /\ desc.default = None
    /\ ModeDefaultApplies
    /\ cur = Some(PRODUCTION)
    /\ desc.mode_conditional_default[1].allowed_modes = {PRODUCTION}
    /\ res.kind = "ok"

\* C9: when the variable is absent and neither a plain default nor a
\* matching mode-conditional default exists, the resolution raises an
\* EnvironmentError whose message names the key and holds
\* "(current_mode: <mode>)" exactly when a current mode was supplied.
C9_MissingMessage ==
    (Resolved /\ RawOfDesc = None /\ desc.default = None /\ ~ModeDefaultApplies) =>
        /\ res.kind = "EnvironmentError"
        /\ Contains(res.msg, <<desc.key, " environment variable is required">>)
        /\ (cur # None) =>
               Contains(res.msg, <<" (current_mode: ">> \o cur[1] \o <<")">>)
        /\ (cur = None) =>
               /\ ~Contains(res.msg, <<" (current_mode: ">>)
               /\ \A m \in Mode : ~Contains(res.msg, m)

\* a development-only default refused in production, the message naming production
C9_Witness ==
    /\ Resolved
    /\ RawOfDesc = None
    /\ desc.default = None
    /\ desc.mode_conditional_default # None
    /\ cur = Some(PRODUCTION)
    /\ res.kind = "EnvironmentError"
    /\ Contains(res.msg, <<" (current_mode: ", "production", ")">>)

\* C10: for the port variable of Settings and a raw string that is present
\* and not empty, the resolution returns the integer v when the string is
\* made of decimal digits and 1 <= v <= 65535, and raises the
\* "validation failed for 'port'" EnvironmentError for every other string.
C10_PortResolution ==
    (Resolved /\ desc = PortVar /\ RawOfDesc # None /\ RawOfDesc # Some(Empty)) =>
        IF /\ IntParses(RawOfDesc[1])
           /\ MinPort <= DecimalValue(RawOfDesc[1])
           /\ DecimalValue(RawOfDesc[1]) <= MaxPort
        THEN res.kind = "ok" /\ res.value = DecimalValue(RawOfDesc[1])
        ELSE /\ res.kind = "EnvironmentError"
             /\ SubSeq(res.msg, 1, 3) = <<"validation failed for '", "port", "'.">>

-----------------------------------------------------------------------------
(* Settings() constructed directly, on every environment over the raw      *)
(* values below (absent, empty, valid and invalid ones for each variable). *)

SettingsRaw(key) ==
    CASE key = "mode" -> {Empty, DEVELOPMENT, PRODUCTION, <<"staging">>}
      [] key = "host" -> {Empty, <<"localhost">>}
      [] key = "port" -> PortStrings
      [] key = "gcp_project_id" -> {Empty, <<"test-project">>}
      [] key = "gcp_resource_type" -> {Empty, <<"gce_instance">>}

SettingsEnvirons ==
    [mode : {None} \cup {Some(v) : v \in SettingsRaw("mode")},
     host : {None} \cup {Some(v) : v \in SettingsRaw("host")},
     port : {None} \cup {Some(v) : v \in SettingsRaw("port")},
     gcp_project_id : {None} \cup {Some(v) : v \in SettingsRaw("gcp_project_id")},
     gcp_resource_type : {None} \cup {Some(v) : v \in SettingsRaw("gcp_resource_type")}]

InitSettings ==
    /\ environ \in SettingsEnvirons
    /\ InitCache
    /\ InitVar
    /\ InitConc
    /\ InitLogging

\* Settings()
Construct ==
    /\ made < MaxMade
    /\ made' = made + 1
    /\ ret' = Called("Settings", SettingsNew(made + 1, environ))
    /\ UNCHANGED <<environ, cache, hits, misses, builtEnv, served, retired, calls, fails>>

NextSettings == Construct /\ UNCHANGED <<varVars, concVars, logVars>>

SpecSettings == InitSettings /\ [][NextSettings]_vars

-----------------------------------------------------------------------------
(* Properties of Settings() (SpecSettings) *)

Constructed == ret.op = "Settings"

\* the variable is set to a value its field accepts
SetAndValid(key) ==
    /\ environ[key] # None
    /\ environ[key][1] # Empty
    /\ (key = "port") =>
           /\ IntParses(environ[key][1])
           /\ 1 <= DecimalValue(environ[key][1])
           /\ DecimalValue(environ[key][1]) <= 65535

AbsentOrValid(key) == environ[key] = None \/ SetAndValid(key)

\* the error of a missing variable, naming the key and the mode
MissingIn(key, modeName) ==
    /\ ret.kind = "EnvironmentError"
    /\ Contains(ret.msg, <<key, " environment variable is required">>)
    /\ Contains(ret.msg, <<" (current_mode: ", modeName, ")">>)

\* C11: in development with gcp_project_id set, Settings() succeeds and host,
\* port and gcp_resource_type each equal the environment's value when set
\* (and valid, the port as an integer) and otherwise the development
\* default "0.0.0.0", 8000, "cloud_run_revision"; is_development is true
\* and is_production false.
C11_DevelopmentDefaults ==
    (/\ Constructed
     /\ environ["mode"] = Some(<<"development">>)
     /\ SetAndValid("gcp_project_id")
     /\ \A k \in {"host", "port", "gcp_resource_type"} : AbsentOrValid(k)) =>
        /\ ret.kind = "ok"
        /\ ret.value.mode = <<"development">>
        /\ ret.value.host =
               (IF environ["host"] = None THEN <<"0.0.0.0">> ELSE environ["host"][1])
        /\ ret.value.port =
               (IF environ["port"] = None THEN 8000
                ELSE DecimalValue(environ["port"][1]))
        /\ ret.value.gcp_project_id = environ["gcp_project_id"][1]
        /\ ret.value.gcp_resource_type =
               (IF environ["gcp_resource_type"] = None THEN <<"cloud_run_revision">>
                ELSE environ["gcp_resource_type"][1])
        /\ is_development(ret.value)
        /\ ~is_production(ret.value)

\* an explicit port beside the defaults of host and gcp_resource_type
C11_Witness ==
    /\ Constructed
    /\ environ["mode"] = Some(<<"development">>)
    /\ environ["host"] = None
    /\ environ["port"] = Some(<<"8", "0", "8", "0">>)
    /\ environ["gcp_resource_type"] = None
    /\ ret.kind = "ok"
    /\ ret.value.host = <<"0.0.0.0">>
    /\ ret.value.port = 8080
    /\ ret.value.gcp_resource_type = <<"cloud_run_revision">>

\* C12: in production no development default is used: with host, port or
\* gcp_resource_type absent and every field before it valid, Settings()
\* raises the error naming that variable with "(current_mode: production)";
\* Settings() succeeds in production only with host, port, gcp_project_id
\* and gcp_resource_type all set.
C12_ProductionRequiresAll ==
    (Constructed /\ environ["mode"] = Some(<<"production">>)) =>
        /\ (environ["host"] = None) => MissingIn("host", "production")
        /\ (SetAndValid("host") /\ environ["port"] = None)
               => MissingIn("port", "production")
        /\ (/\ SetAndValid("host") /\ SetAndValid("port")
            /\ SetAndValid("gcp_project_id")
            /\ environ["gcp_resource_type"] = None)
               => MissingIn("gcp_resource_type", "production")
        /\ (ret.kind = "ok") =>
               \A k \in {"host", "port", "gcp_project_id", "gcp_resource_type"} :
                   environ[k] # None

\* production with everything but gcp_resource_type: the last field raises
C12_Witness ==
    /\ Constructed
    /\ environ["mode"] = Some(<<"production">>)
    /\ SetAndValid("host") /\ SetAndValid("port") /\ SetAndValid("gcp_project_id")
    /\ environ["gcp_resource_type"] = None
    /\ MissingIn("gcp_resource_type", "production")

\* the validator of desc is the port validator and returns False on the raw
\* value: not all digits, or a decimal integer outside 1..65535
ValidatorRejects ==
    /\ desc.validator = "port"
    /\ RawOfDesc # None
    /\ RawOfDesc[1] # Empty
    /\ \/ ~StrIsDigit(RawOfDesc[1])
       \/ /\ IntParses(RawOfDesc[1])
          /\ ~(1 <= DecimalValue(RawOfDesc[1]) /\ DecimalValue(RawOfDesc[1]) <= 65535)

\* C13: when the validator rejects the raw value, get_validated_value raises
\* the "validation failed for '<key>'." EnvironmentError, whose message
\* contains the raw value exactly when the variable is not sensitive; no
\* value is returned and the converter is not reached (nothing is logged).
C13_ValidationFailure ==
    (Resolved /\ ValidatorRejects) =>
        /\ res.kind = "EnvironmentError"
        /\ SubSeq(res.msg, 1, 3) = <<"validation failed for '", desc.key, "'.">>
        /\ Contains(res.msg, RawOfDesc[1]) <=> ~desc.sensitive
        /\ desc.sensitive => res.msg = <<"validation failed for '", desc.key, "'.">>
        /\ res.log = <<>>

\* a sensitive variable rejected although defaults exist: no raw value shown
C13_Witness ==
    /\ Resolved
    /\ ValidatorRejects
    /\ desc.sensitive
    /\ RawOfDesc = Some(<<"6", "5", "5", "3", "6">>)
    /\ res.kind = "EnvironmentError"
    /\ ~Contains(res.msg, RawOfDesc[1])

\* the raw value occurs in the error message or in a debug message of res
ShowsRaw(r, raw) ==
    \/ r.kind # "ok" /\ Contains(r.msg, raw)
    \/ \E i \in 1..Len(r.log) : Contains(r.log[i], raw)

\* C14: for a sensitive variable neither the error nor a debug message of
\* its resolution contains the raw value, and another raw value failing
\* with the same kind of error gives the same error and log text.
C14_SensitiveNeverShown ==
    (Resolved /\ desc.sensitive /\ RawOfDesc # None /\ RawOfDesc[1] # Empty) =>
        /\ ~ShowsRaw(res, RawOfDesc[1])
        /\ \A v \in RawFor(desc) \ {Empty} :
               LET other == get_validated_value(desc, cur,
                                [environ EXCEPT ![desc.key] = Some(v)])
               IN  (res.kind # "ok" /\ other.kind = res.kind) =>
                       (other.msg = res.msg /\ other.log = res.log)

-----------------------------------------------------------------------------
(* Properties of Settings(), continued (SpecSettings) *)

\* C15: every failure of Settings() is of the one configuration-error kind
\* (EnvironmentError in the code): missing, empty, rejected by the
\* validator, failed conversion, unrecognized MODE.
C15_SingleErrorKind ==
    (Constructed /\ ret.kind # "ok") => ret.kind = "EnvironmentError"

\* the fields before gcp_project_id resolve: MODE is a mode, and host and
\* port are valid, or absent in development
BeforeProjectValid ==
    /\ environ["mode"] \in {Some(m) : m \in Mode}
    /\ \A k \in {"host", "port"} :
           IF environ["mode"] = Some(<<"development">>) THEN AbsentOrValid(k)
           ELSE SetAndValid(k)

\* the missing-variable error of key is raised
MissingRaised(key) ==
    /\ ret.kind = "EnvironmentError"
    /\ Contains(ret.msg, <<key, " environment variable is required">>)

\* C16 as stated: the resolved mode is passed to host, port, gcp_project_id
\* and gcp_resource_type, so the missing-variable error of each of the four
\* contains "(current_mode: <mode>)".
C16_ModeInEveryMissingError ==
    Constructed =>
        \A k \in {"host", "port", "gcp_project_id", "gcp_resource_type"} :
            MissingRaised(k) =>
                Contains(ret.msg, <<" (current_mode: ", environ["mode"][1][1], ")">>)

\* C16, amended: the resolved mode is passed to host, port and
\* gcp_resource_type, whose missing-variable error contains
\* "(current_mode: <mode>)"; gcp_project_id is resolved without a mode, and
\* when it is absent its error names the key with no mode context.
C16_ModePassedWhereDefaulted ==
    Constructed =>
        /\ \A k \in {"host", "port", "gcp_resource_type"} :
               MissingRaised(k) =>
                   ret.msg = <<k, " environment variable is required",
                               " (current_mode: ", environ["mode"][1][1], ")",
                               ". ", "No default value is available for this mode.">>
        /\ (BeforeProjectValid /\ environ["gcp_project_id"] = None) =>
               /\ ret.kind = "EnvironmentError"
               /\ ret.msg = <<"gcp_project_id", " environment variable is required",
                              ". ", "No default value is available for this mode.">>

\* gcp_project_id missing in production: the error carries no mode
C16_Witness ==
    /\ Constructed
    /\ environ["mode"] = Some(<<"production">>)
    /\ BeforeProjectValid
    /\ environ["gcp_project_id"] = None
    /\ MissingRaised("gcp_project_id")
    /\ ~Contains(ret.msg, <<" (current_mode: ">>)

\* the order in which __init__ assigns the fields
FieldOrder == <<"mode", "host", "port", "gcp_project_id", "gcp_resource_type">>

FieldVar(key) ==
    CASE key = "mode" -> ModeVar
      [] key = "host" -> HostVar
      [] key = "port" -> PortVar
      [] key = "gcp_project_id" -> ProjectVar
      [] key = "gcp_resource_type" -> ResourceVar

\* the resolution of one field taken alone, in the current environment
Standalone(key) ==
    get_validated_value(FieldVar(key),
        IF key \in {"host", "port", "gcp_resource_type"} THEN environ["mode"] ELSE None,
        environ)

\* field i fails and every field before it resolves
FirstFailure(i) ==
    /\ Standalone(FieldOrder[i]).kind # "ok"
    /\ \A j \in 1..(i - 1) : Standalone(FieldOrder[j]).kind = "ok"

\* the outcome of Settings() does not depend on the variable of field j:
\* whatever its value, the same error with the same debug messages
Unread(j) ==
    \A v \in {None} \cup {Some(x) : x \in SettingsRaw(FieldOrder[j])} :
        LET other == SettingsInit([environ EXCEPT ![FieldOrder[j]] = v])
        IN  other.kind = ret.kind /\ other.msg = ret.msg /\ other.log = ret.log

\* C17: Settings() resolves mode, host, port, gcp_project_id,
\* gcp_resource_type in this order and stops at the first failure: the error
\* is that of the earliest failing field, no later field is resolved (no
\* debug message names it, its variable has no influence), and no Settings
\* object is returned.
C17_FirstFailureStops ==
    Constructed =>
        /\ (ret.kind = "ok") <=> \A i \in 1..5 : Standalone(FieldOrder[i]).kind = "ok"
        /\ \A i \in 1..5 :
               FirstFailure(i) =>
                   /\ ret.kind = Standalone(FieldOrder[i]).kind
                   /\ ret.msg = Standalone(FieldOrder[i]).msg
                   /\ "value" \notin DOMAIN ret
                   /\ \A j \in (i + 1)..5 :
                          /\ \A n \in 1..Len(ret.log) :
                                 ~Contains(ret.log[n], <<FieldOrder[j]>>)
                          /\ Unread(j)

\* host empty, port out of range and gcp_project_id missing: host's error
C17_Witness ==
    /\ Constructed
    /\ environ["mode"] = Some(<<"production">>)
    /\ environ["host"] = Some(Empty)
    /\ environ["port"] = Some(<<"0">>)
    /\ environ["gcp_project_id"] = None
    /\ ret.kind = "EnvironmentError"
    /\ ret.msg = <<"Environment variable '", "host", "' is empty">>
    /\ Len(ret.log) = 1

-----------------------------------------------------------------------------
(* Properties of one resolution, continued (SpecVar) *)

\* C20: every ModeConditionalDefault has a non-empty allowed_modes: built
\* from one Mode it holds the singleton of that mode, built from a set it
\* holds that set, and no accepted construction leaves allowed_modes empty.
C20_AllowedModesNonEmpty ==
    /\ \A a \in ModeArgs :
           LET d == ModeConditionalDefaultInit("test_value", a)
           IN  /\ d.value = "test_value"
               /\ d.allowed_modes = (IF a.isMode THEN {a.modes} ELSE a.modes)
    /\ (desc.mode_conditional_default # None) =>
           desc.mode_conditional_default[1].allowed_modes # {}

-----------------------------------------------------------------------------
(* get_settings() called from several threads while the environment        *)
(* changes and reload_settings() runs.  The wrapper of lru_cache holds no  *)
(* lock while it calls Settings(): a call is a lookup (hit, or miss        *)
(* counted), then Settings() reading os.environ, then the store of the     *)
(* result unless the key was stored meanwhile.  cache_clear() is one step. *)

\* the variables changed while the threads run
ConcKeys == {"host", "gcp_project_id"}

ConcEnviron ==
    [NoEnviron EXCEPT !["mode"] = Some(DEVELOPMENT),
                      !["host"] = Some(<<"localhost">>),
                      !["gcp_project_id"] = Some(<<"test-project">>)]

InitThreads ==
    /\ environ = ConcEnviron
    /\ InitCache
    /\ InitVar
    /\ InitConc
    /\ InitLogging

\* the wrapper up to the call of Settings(): a hit returns the cached
\* instance, a miss is counted
WrapperLookup(t) ==
    /\ thr[t].pc = "idle"
    /\ LET link == CacheGet(cache, ArgsKey)
       IN  IF link # None
           THEN /\ hits < MaxHits
                /\ hits' = hits + 1
                /\ ret' = Called("get_settings", Ok(link[1].result, <<>>))
                /\ UNCHANGED <<misses, thr>>
           ELSE /\ misses' = misses + 1
                /\ thr' = [thr EXCEPT ![t] = [pc |-> "call"]]
                /\ UNCHANGED <<hits, ret>>
    /\ UNCHANGED <<environ, cache, made, stale, builtEnv, served, retired, calls, fails>>

\* Settings() inside the wrapper: an exception leaves get_settings()
WrapperCall(t) ==
    /\ thr[t].pc = "call"
    /\ made < MaxMade
    /\ made' = made + 1
    /\ LET result == SettingsNew(made + 1, environ)
       IN  IF result.kind = "ok"
           THEN /\ thr' = [thr EXCEPT ![t] = [pc |-> "store", result |-> result]]
                /\ ret' = ret
           ELSE /\ thr' = [thr EXCEPT ![t] = Idle]
                /\ ret' = Called("get_settings", result)
    /\ UNCHANGED <<environ, cache, hits, misses, stale, builtEnv, served, retired,
                   calls, fails>>

\* the wrapper after Settings() returned: the result is stored unless the
\* key was stored during the call, and returned
WrapperStore(t) ==
    /\ thr[t].pc = "store"
    /\ cache' = IF CacheGet(cache, ArgsKey) # None THEN cache
                ELSE CachePut(cache, ArgsKey, thr[t].result.value)
    /\ ret' = Called("get_settings", thr[t].result)
    /\ thr' = [thr EXCEPT ![t] = Idle]
    /\ UNCHANGED <<environ, hits, misses, made, stale, builtEnv, served, retired,
                   calls, fails>>

\* reload_settings() in another thread: every instance built so far, held
\* in the slot or by a wrapper about to store it, read the environment
\* before this reload
ThreadReload ==
    LET cleared == CacheClear(CacheState)
    IN  /\ cache' = cleared.cache
        /\ hits' = cleared.hits
        /\ misses' = cleared.misses
        /\ ret' = Called("reload_settings",
                         Ok(None, <<<<"Reloading settings = clearing cache">>>>))
        /\ stale' = stale \cup {cache[i].result.id : i \in 1..Len(cache)}
                          \cup {thr[t].result.value.id :
                                    t \in {u \in Threads : thr[u].pc = "store"}}
        /\ UNCHANGED <<environ, made, thr, builtEnv, served, retired, calls, fails>>

\* os.environ[key] = value in another thread
ThreadSetEnv ==
    \E key \in ConcKeys : \E value \in RawValues(key) :
        /\ environ[key] # Some(value)
        /\ environ' = [environ EXCEPT ![key] = Some(value)]
        /\ ret' = [op |-> "environ"]
        /\ UNCHANGED <<cache, hits, misses, made, thr, stale, builtEnv, served,
                       retired, calls, fails>>

\* del os.environ[key] in another thread
ThreadDelEnv ==
    \E key \in ConcKeys :
        /\ environ[key] # None
        /\ environ' = [environ EXCEPT ![key] = None]
        /\ ret' = [op |-> "environ"]
        /\ UNCHANGED <<cache, hits, misses, made, thr, stale, builtEnv, served,
                       retired, calls, fails>>

NextConc ==
    \/ \E t \in Threads : WrapperLookup(t) /\ UNCHANGED <<varVars, logVars>>
    \/ \E t \in Threads : WrapperCall(t) /\ UNCHANGED <<varVars, logVars>>
    \/ \E t \in Threads : WrapperStore(t) /\ UNCHANGED <<varVars, logVars>>
    \/ ThreadReload /\ UNCHANGED <<varVars, logVars>>
    \/ ThreadSetEnv /\ UNCHANGED <<varVars, logVars>>
    \/ ThreadDelEnv /\ UNCHANGED <<varVars, logVars>>

SpecConc == InitThreads /\ [][NextConc]_vars

\* C19: with get_settings() and reload_settings() running in different
\* threads and no lock, after a reload_settings() has returned the slot
\* never holds (so no later get_settings() is served) a Settings built from
\* environment values read before that reload; a construction in progress
\* when the reload clears the slot does not get its result stored.
C19_NoStaleAfterReload ==
    \A i \in 1..Len(cache) : cache[i].result.id \notin stale

-----------------------------------------------------------------------------
(* src/app/config/logger.py: setup_logging(), called by app/main.py before *)
(* get_settings().  It reads the variable named "MODE", Settings reads the *)
(* variable named Key.MODE = "mode".  Where names of environment variables *)
(* are case-sensitive these are two variables, each set or not on its own; *)
(* where they are not, the two always hold the same value, which is among  *)
(* the environments below.                                                 *)

\* the name passed to os.getenv in setup_logging
LoggingModeName == "MODE"

LoggingEnvirons ==
    {[k \in Key \cup {LoggingModeName} |->
         CASE k = LoggingModeName -> M
           [] k = "mode" -> m
           [] k = "host" -> h
           [] k = "port" -> p
           [] k = "gcp_project_id" -> g
           [] k = "gcp_resource_type" -> t] :
        M \in {None, Some(Empty), Some(DEVELOPMENT), Some(PRODUCTION)},
        m \in {None} \cup {Some(v) : v \in RawValues("mode")},
        h \in {None, Some(<<"localhost">>)},
        p \in {None, Some(<<"8", "0", "8", "0">>)},
        g \in {None, Some(<<"test-project">>)},
        t \in {None, Some(<<"gce_instance">>)}}

InitMain ==
    /\ environ \in LoggingEnvirons
    /\ InitCache
    /\ InitVar
    /\ InitConc
    /\ InitLogging

\* the nested is_development() of setup_logging
LoggingIsDevelopment(env) == env[LoggingModeName] = Some(DEVELOPMENT)

\* setup_logging(): handler, formatter and level given to logging.basicConfig
SetupLogging ==
    /\ rootLogger' =
           IF LoggingIsDevelopment(environ)
           THEN Some([handler |-> "RichHandler", formatter |-> "RichFormatter",
                      level |-> "DEBUG"])
           ELSE Some([handler |-> "StreamHandler", formatter |-> "JsonFormatter",
                      level |-> "INFO"])
    /\ ret' = Called("setup_logging", Ok(None, <<>>))
    /\ UNCHANGED <<environ, cache, hits, misses, made, builtEnv, served, retired,
                   calls, fails>>

NextMain ==
    \/ SetupLogging /\ UNCHANGED <<varVars, concVars>>
    \/ GetSettings /\ UNCHANGED <<varVars, concVars, logVars>>

SpecLogging == InitMain /\ [][NextMain]_vars

\* C21: whenever Settings was constructed from the environment in which
\* setup_logging() ran, the logging setup agrees with it: the RichHandler
\* at level DEBUG exactly when settings.is_development, the JsonFormatter
\* exactly when not.
C21_LoggingAgreesWithSettings ==
    (rootLogger # None /\ is_settings_cached) =>
        /\ (rootLogger[1].handler = "RichHandler" /\ rootLogger[1].level = "DEBUG")
               <=> is_development(cache[1].result)
        /\ (rootLogger[1].formatter = "JsonFormatter")
               <=> ~is_development(cache[1].result)

====
